---- MODULE Spec2Model ----
(***************************************************************************)
(* Model of DataAcq.py: one acquisition session with a Tektronix TDS 3034  *)
(* over a serial line.  The script is straight-line code; every paragraph  *)
(* of it is one action, and pc is the position of the interpreter.         *)
(*                                                                         *)
(* Text is modelled as a sequence of one-character strings, so that the    *)
(* slicing, splitting and parsing the script does on the bytes it reads    *)
(* are computed, not assumed.  A float is an integer count of units: times *)
(* in units of 10^-6, voltages in units of 10^-2, codes and counts in       *)
(* units of 1 (Resolution).  The numeric tokens the modelled instrument    *)
(* sends are whole multiples of their unit, so the products, sums and the  *)
(* rounding to 15 decimals of the script are exact in the model.           *)
(***************************************************************************)
EXTENDS Integers, Sequences, FiniteSets, TLC

(***************************************************************************)
(* Bounds of the model.                                                    *)
(***************************************************************************)
\* reads of one session that may run into the read timeout
MaxTimeouts == 1
\* a timed-out read returns a line short of at most this many characters
MaxCut == 2
\* samples of the longest curve the modelled instrument sends
MaxSamples == 12

(***************************************************************************)
(* Program constants.                                                      *)
(***************************************************************************)
smooth_window == 11
smooth_order == 2

ExpectedIDN ==
    << "T", "E", "K", "T", "R", "O", "N", "I", "X", ",",
       "T", "D", "S", " ", "3", "0", "3", "4", ",", "0",
       ",", "C", "F", ":", "9", "1", ".", "1", "C", "T",
       " ", "F", "V", ":", "v", "3", ".", "2", "9", " ",
       "T", "D", "S", "3", "G", "M", ":", "v", "1", ".",
       "0", "0", " ", "T", "D", "S", "3", "F", "F", "T",
       ":", "v", "1", ".", "0", "0", " ", "T", "D", "S",
       "3", "T", "R", "G", ":", "v", "1", ".", "0", "0" >>

(***************************************************************************)
(* Text operations of Python the script uses.                              *)
(***************************************************************************)
NL == "\n"

\* s[:-1]: the text without its last character, whatever that character is
DropLast(s) == SubSeq(s, 1, Len(s) - 1)

\* s.find(c) for a one-character c: the first 0-based index of c, or -1
Find(s, c) ==
    IF \E i \in 1..Len(s) : s[i] = c
    THEN (CHOOSE i \in 1..Len(s) : s[i] = c /\ \A j \in 1..(i - 1) : s[j] # c) - 1
    ELSE -1

\* s.replace(a, b) for one-character a and b
Replace(s, a, b) == [i \in 1..Len(s) |-> IF s[i] = a THEN b ELSE s[i]]

\* s.split(sep) for a one-character sep: always at least one piece
RECURSIVE Split(_, _)
Split(s, sep) ==
    LET k == Find(s, sep)
    IN  IF k < 0 THEN << s >>
        ELSE << SubSeq(s, 1, k) >> \o Split(SubSeq(s, k + 2, Len(s)), sep)

RECURSIVE Join(_, _)
Join(parts, sep) ==
    IF Len(parts) = 0 THEN << >>
    ELSE IF Len(parts) = 1 THEN parts[1]
    ELSE parts[1] \o << sep >> \o Join(Tail(parts), sep)

Digits == {"0", "1", "2", "3", "4", "5", "6", "7", "8", "9"}

DigitVal(c) ==
    CASE c = "0" -> 0 [] c = "1" -> 1 [] c = "2" -> 2 [] c = "3" -> 3
      [] c = "4" -> 4 [] c = "5" -> 5 [] c = "6" -> 6 [] c = "7" -> 7
      [] c = "8" -> 8 [] c = "9" -> 9

RECURSIVE NatVal(_)
NatVal(ds) ==
    IF Len(ds) = 0 THEN 0
    ELSE 10 * NatVal(DropLast(ds)) + DigitVal(ds[Len(ds)])

RoundDiv(a, d) ==
    LET q == a \div d
        r == a % d
    IN  IF 2 * r >= d THEN q + 1 ELSE q

RECURSIVE Pow10(_)
Pow10(k) == IF k = 0 THEN 1 ELSE 10 * Pow10(k - 1)

Unsigned(t) == IF Len(t) > 0 /\ t[1] \in {"-", "+"} THEN Tail(t) ELSE t

AllDigits(t) == \A i \in 1..Len(t) : t[i] \in Digits

\* the 1-based place of the exponent mark of a float literal, or 0
ExpAt(tok) ==
    IF \E i \in 1..Len(tok) : tok[i] \in {"e", "E"}
    THEN CHOOSE i \in 1..Len(tok) :
            tok[i] \in {"e", "E"} /\ \A j \in 1..(i - 1) : tok[j] \notin {"e", "E"}
    ELSE 0

\* the digits before and after the decimal point of an unsigned mantissa
IntPart(b) == IF Find(b, ".") < 0 THEN b ELSE SubSeq(b, 1, Find(b, "."))
FracPart(b) == IF Find(b, ".") < 0 THEN << >> ELSE SubSeq(b, Find(b, ".") + 2, Len(b))

IsDecimal(t) ==
    LET b == Unsigned(t)
    IN  /\ AllDigits(IntPart(b))
        /\ AllDigits(FracPart(b))
        /\ Len(IntPart(b)) + Len(FracPart(b)) > 0

\* float(tok) succeeds: sign, digits with an optional point, optional
\* exponent (the literals an instrument sends; float() also takes blanks
\* around the number, inf and nan, which the modelled instrument never sends)
IsFloat(tok) ==
    LET k == ExpAt(tok)
    IN  IF k = 0 THEN IsDecimal(tok)
        ELSE /\ IsDecimal(SubSeq(tok, 1, k - 1))
             /\ Len(Unsigned(SubSeq(tok, k + 1, Len(tok)))) > 0
             /\ AllDigits(Unsigned(SubSeq(tok, k + 1, Len(tok))))

SignedNat(t) == IF Len(t) > 0 /\ t[1] = "-" THEN 0 - NatVal(Unsigned(t)) ELSE NatVal(Unsigned(t))

\* float(tok) where it succeeds, as a count of units of 10^-p
FloatIn(tok, p) ==
    LET k == ExpAt(tok)
        mant == IF k = 0 THEN tok ELSE SubSeq(tok, 1, k - 1)
        ex == IF k = 0 THEN 0 ELSE SignedNat(SubSeq(tok, k + 1, Len(tok)))
        b == Unsigned(mant)
        m == NatVal(IntPart(b) \o FracPart(b))
        shift == ex - Len(FracPart(b)) + p
        v == IF shift >= 0 THEN m * Pow10(shift) ELSE RoundDiv(m, Pow10(0 - shift))
    IN  IF Len(mant) > 0 /\ mant[1] = "-" THEN 0 - v ELSE v

\* float(tok) of a code or a count
Float(tok) == FloatIn(tok, 0)

\* decimals kept of a time and of a voltage
Resolution == [time |-> 6, volt |-> 2]

\* str(n) for an integer n
RECURSIVE NatText(_)
NatText(n) ==
    IF n < 10 THEN << ToString(n) >>
    ELSE NatText(n \div 10) \o << ToString(n % 10) >>

IntText(n) == IF n < 0 THEN << "-" >> \o NatText(0 - n) ELSE NatText(n)

(***************************************************************************)
(* Command line: the channel selection.                                    *)
(***************************************************************************)
\* an optional argument of argparse: absent (None) or a text
Absent == [given |-> FALSE, text |-> << >>]
Given(t) == [given |-> TRUE, text |-> t]

\* lines 38-39: channels defaults to '12' only when the option is absent
ChannelsText(arg) == IF arg.given THEN arg.text ELSE << "1", "2" >>

\* the selection in the order the digits stand in the specifier
SelectChannelsAsTyped(text) ==
    LET hits == SelectSeq(text, LAMBDA c : c \in {"1", "2", "3", "4"})
    IN  [i \in 1..Len(hits) |-> DigitVal(hits[i])]

\* lines 41-43: scan 1..4 in order and keep the digits the specifier contains
SelectChannels(text) ==
    SelectSeq(<< 1, 2, 3, 4 >>, LAMBDA i : Find(text, ToString(i)) >= 0)

(***************************************************************************)
(* The instrument and the serial line.                                     *)
(*                                                                         *)
(* log    every write and every readline of the session, in order          *)
(* rx     the response lines the instrument has sent, or will send, that   *)
(*        no readline has returned yet, oldest first; each entry keeps the *)
(*        query it answers                                                 *)
(***************************************************************************)
WriteEv(cmd) == << "w", cmd >>
ReadEv == << "r", "readline" >>

Line(t) == t \o << NL >>

\* an identification that differs from the expected one in a single character
OtherIDN == [ExpectedIDN EXCEPT ![18] = "2"]

GoodFields ==
    << << "2" >>, << "1", "6" >>, << "A", "S", "C" >>, << "R", "P" >>,
       << "M", "S", "B" >>, << "5", "0", "0" >>, << "C", "h" >>, << "Y" >>,
       << "3", "e", "-", "6" >>, << "0" >>, << "5", "e", "-", "6" >>, << "s" >>,
       << "0", ".", "0", "2" >>, << "0", ".", "0", "1" >>, << "6" >>, << "V" >> >>

\* the preamble of a second oscilloscope setting: 1e-6 s per point from 0 s,
\* 0.04 V per level, the trace positioned at level 512
StepFields ==
    [GoodFields EXCEPT ![9] = << "1", "e", "-", "6" >>, ![11] = << "0" >>,
                       ![13] = << "0", ".", "0", "4" >>, ![15] = << "5", "1", "2" >>]

Scopes == {"parabola", "steps"}

\* WFMPre? answers: well-formed, one field short, and a non-numeric YMULT
Preambles(scope) ==
    IF scope = "steps" THEN { Line(Join(StepFields, ";")) }
    ELSE { Line(Join(GoodFields, ";")),
           Line(Join(SubSeq(GoodFields, 1, 15), ";")),
           Line(Join([GoodFields EXCEPT ![13] = << "x" >>], ";")) }

\* the sample codes of a curve of n points
Samples(n) == [i \in 1..n |-> IntText((i - 4) * (i - 4) - 5)]

CurveLens == {2, smooth_window, MaxSamples}

\* the sample codes of a rising trace and of a flat one
StepSamples == << << "1", "0", "0" >>, << "2", "0", "0" >>, << "3", "0", "0" >> >>
FlatSamples == [i \in 1..smooth_window |-> << "1", "0", "0" >>]

\* CURVe? answers: curves of several lengths, an empty line, a bad token
Curves(scope) ==
    IF scope = "steps"
    THEN { Line(Join(StepSamples, ",")), Line(Join(FlatSamples, ",")) }
    ELSE { Line(Join(Samples(n), ",")) : n \in CurveLens }
            \cup { Line(<< >>), Line(<< "7", ",", "x" >>) }

SourceCmd(n) == "DATa:SOU CH" \o ToString(n)

\* what the instrument may answer to a query; a command that is no query
\* is not answered.  src is the data source selected last, scope the signal
\* and vertical setting of the oscilloscope.
Replies(cmd, src, scope) ==
    CASE cmd = "*IDN?" ->
            { Line(ExpectedIDN), Line(ExpectedIDN \o << "\r" >>), Line(OtherIDN) }
      [] cmd = "WFMPre:BIT_Nr?" -> { Line(<< "1", "6" >>), Line(<< "8" >>) }
      [] cmd = "DATa:WIDth?" -> { Line(<< "2" >>) }
      [] cmd = "WFMPre:ENCdg?" -> { Line(<< "A", "S", "C" >>), Line(<< "R", "I", "B" >>) }
      [] cmd = "HORizontal?" -> { Line(<< "5", "0", "0", ";", "4" >>) }
      [] cmd = "DATa:STARt?" -> { Line(<< "1" >>), Line(<< "2" >>) }
      [] cmd = "DATa:STOP?" -> { Line(<< "1", "0", "0", "0", "0" >>), Line(<< "5", "0", "0" >>) }
      [] cmd = "DATa:SOU?" -> { Line(<< "C", "H", ToString(src) >>), Line(<< "C", "H", "1" >>) }
      [] cmd = "WFMPre?" -> Preambles(scope)
      [] cmd = "CURVe?" -> Curves(scope)
      [] OTHER -> { }

\* ser.readline() with ser.timeout = 30 (line 50): the oldest pending line up
\* to and including its terminator; or, when the terminator has not arrived
\* in time, the bytes that did arrive (none, or a line short of its last
\* characters), the rest staying on the line for the next readline.  q is
\* the query the returned bytes answer ("" when none were returned).
ReadOutcomes(q, n) ==
    LET h == Head(q)
        len == Len(h.text)
    IN  (IF q # << >>
         THEN { [line |-> h.text, rest |-> Tail(q), late |-> FALSE, q |-> h.q] }
         ELSE { })
        \cup
        (IF n < MaxTimeouts
         THEN { [line |-> << >>, rest |-> q, late |-> TRUE, q |-> ""] }
         ELSE { })
        \cup
        (IF n < MaxTimeouts /\ q # << >>
         THEN { [line |-> SubSeq(h.text, 1, len - k),
                 rest |-> << [q |-> h.q, text |-> SubSeq(h.text, len - k + 1, len)] >>
                              \o Tail(q),
                 late |-> TRUE, q |-> h.q] : k \in {j \in 1..MaxCut : j < len} }
         ELSE { })

(***************************************************************************)
(* Waveform decoding (lines 132-145) and the smoothing filter.             *)
(***************************************************************************)
\* element k (0-based, as in the script) of a Python list
Item(list, k) == list[k + 1]

\* line 132: the scaled samples
ScaleY(tokens, ymult) == [i \in 1..Len(tokens) |-> Float(tokens[i]) * ymult]

\* the time axis one sample short
TimeAxisShort(n, xincr, xzero) == [i \in 1..(n - 1) |-> (i - 1) * xincr + xzero]

\* line 133: round(float(x)*XINCRement + XZERO, 15) for x in range(len(Y))
TimeAxis(n, xincr, xzero) == [i \in 1..n |-> (i - 1) * xincr + xzero]

\* the position offset added instead of taken off
RemoveOffsetAdded(ys, yoff) == [i \in 1..Len(ys) |-> ys[i] + yoff]

\* line 145: np.round(ch_data_Y - YOFF, 15)
RemoveOffset(ys, yoff) == [i \in 1..Len(ys) |-> ys[i] - yoff]

RECURSIVE SumTo(_, _)
SumTo(f, k) == IF k = 0 THEN 0 ELSE f[k] + SumTo(f, k - 1)

\* savgol_filter(y, w, 2) refuses a series shorter than the window
\* (mode 'interp') and a polynomial order that is not below the window
SavGolFails(y, w, order) == Len(y) < w \/ order >= w \/ w % 2 = 0

\* savgol_filter(y, w, 2), mode 'interp': the least-squares parabola through
\* the w points around each sample, evaluated at the sample; the first and
\* last (w-1)/2 samples take the parabola of the first and last w points.
\* Written with the orthogonal polynomials 1, t, 3t^2 - h(h+1) on -h..h.
SavGol(y, w) ==
    LET n == Len(y)
        h == (w - 1) \div 2
        P2(t) == 3 * t * t - h * (h + 1)
        N1 == SumTo([k \in 1..w |-> (k - 1 - h) * (k - 1 - h)], w)
        N2 == SumTo([k \in 1..w |-> P2(k - 1 - h) * P2(k - 1 - h)], w)
        Weight(tj, tk) == (N1 * N2) \div w + N2 * tj * tk + N1 * P2(tj) * P2(tk)
        First(i) == IF i <= h THEN 1 ELSE IF i > n - h THEN n - w + 1 ELSE i - h
        Fit(i) ==
            LET s == First(i)
                tj == i - s - h
            IN  RoundDiv(SumTo([k \in 1..w |-> y[s + k - 1] * Weight(tj, k - 1 - h)], w),
                         N1 * N2)
    IN  [i \in 1..n |-> Fit(i)]

Min(a, b) == IF a <= b THEN a ELSE b

\* zip(a, b) and zip(a, b, c) stop at the shortest argument
Zip2(a, b) == [i \in 1..Min(Len(a), Len(b)) |-> << a[i], b[i] >>]
Zip3(a, b, c) ==
    [i \in 1..Min(Len(a), Min(Len(b), Len(c))) |-> << a[i], b[i], c[i] >>]

(***************************************************************************)
(* The session.                                                            *)
(***************************************************************************)
VARIABLES
    pc,           \* position in the script
    err,          \* why the process ended early ("" while it has not)
    channels,     \* args.channels
    smoothing,    \* args.smooth
    save_path,    \* args.save_path, then the directory of the records
    dirs,         \* directories that exist
    COMport,      \* the port named on the command line
    myports,      \* list_ports.comports() as a list of tuples
    ACQ_CH,       \* the channel selection
    is_open,      \* ser.is_open
    now,          \* the session's timestamp
    IDN,          \* the identification read
    cfg,          \* configuration exchanges done
    chi,          \* iterations of the channel loop begun
    source,       \* the instrument's data source
    log,          \* writes and readlines, in order
    rx,           \* response lines not read yet
    timeouts,     \* readlines that hit the timeout
    tmo,          \* Len(log) at the first readline that hit the timeout, or 0
    lastline,     \* the bytes the last readline returned
    answered,     \* the query those bytes are the instrument's answer to
    dat_sou, filename, ch_conf,
    XUNIT, XINCRement, XZERO, YUNIT, YMULTiplier, YZERO, YOFF,
    ch_data_X, ch_data_Y, ch_data_Y_smooth,
    files,        \* the record files: name, header, columns, rows
    emitted,      \* for every record written: the channel and the file
    osc           \* the oscilloscope on the port: its signal and setting

session == << pc, err, channels, smoothing, save_path, dirs, COMport, myports,
              ACQ_CH, is_open, now, IDN, cfg, chi >>
wire == << source, log, rx, timeouts, tmo, lastline, answered >>
locals == << dat_sou, filename, ch_conf, XUNIT, XINCRement, XZERO, YUNIT,
             YMULTiplier, YZERO, YOFF, ch_data_X, ch_data_Y, ch_data_Y_smooth >>
vars == << session, wire, locals, files, emitted, osc >>

Specifiers ==
    { << >>, << "x", "5" >>, << "2" >>, << "2", "4" >>, << "1", "3", "4" >>,
      << "4", "3", "1" >>, << "1", "1", "3", "4" >>, << "1", "2", "3", "4" >> }

OutDir == << "o", "u", "t" >>
CurDir == << "." >>
NowStamp == << "1", "2", ":", "0", "0" >>

Running == {"args", "port", "open", "idn", "config", "loop", "preamble",
            "curve", "smooth", "write", "show"}
Terminal == {"done", "exited", "crashed"}

Init ==
    /\ pc = "args"
    /\ err = ""
    /\ channels \in {Absent} \cup {Given(t) : t \in Specifiers}
    /\ smoothing \in BOOLEAN
    /\ save_path \in {Absent, Given(OutDir)}
    /\ dirs = {CurDir}
    /\ COMport = "COM3"
    /\ myports \in { << << "COM3", "USB Serial", "USB" >>, << "COM4", "n/a", "n/a" >> >>,
                     << << "COM4", "n/a", "n/a" >> >>,
                     << >> }
    /\ ACQ_CH = << >>
    /\ is_open = FALSE
    /\ now = << >>
    /\ IDN = << >>
    /\ cfg = 0
    /\ chi = 0
    /\ source = 1
    /\ log = << >>
    /\ rx = << >>
    /\ timeouts = 0
    /\ tmo = 0
    /\ lastline = << >>
    /\ answered = ""
    /\ dat_sou = << >>
    /\ filename = << >>
    /\ ch_conf = << >>
    /\ XUNIT = << >> /\ YUNIT = << >>
    /\ XINCRement = 0 /\ XZERO = 0 /\ YMULTiplier = 0 /\ YZERO = 0 /\ YOFF = 0
    /\ ch_data_X = << >> /\ ch_data_Y = << >> /\ ch_data_Y_smooth = << >>
    /\ files = { }
    /\ emitted = << >>
    /\ osc \in Scopes

\* lines 26-43: the arguments, the record directory, the channel selection
ParseArgs ==
    /\ pc = "args"
    /\ UNCHANGED osc
    /\ save_path' = IF save_path.given THEN save_path ELSE Given(CurDir)
    /\ dirs' = dirs \cup {save_path'.text}
    /\ ACQ_CH' = SelectChannels(ChannelsText(channels))
    /\ channels' = Given(ChannelsText(channels))
    /\ pc' = "port"
    /\ UNCHANGED << err, smoothing, COMport, myports, is_open, now, IDN, cfg, chi >>
    /\ UNCHANGED << wire, locals, files, emitted >>

PortExistsAny(ports, name) == Len(ports) > 0

\* lines 53-57
PortExists(ports, name) == \E i \in 1..Len(ports) : ports[i][1] = name

\* lines 52-62: sys.exit() when the port is not among the enumerated ones
CheckPort ==
    /\ pc = "port"
    /\ UNCHANGED osc
    /\ IF PortExists(myports, COMport)
       THEN pc' = "open" /\ err' = err
       ELSE pc' = "exited" /\ err' = "PortNotFound"
    /\ UNCHANGED << channels, smoothing, save_path, dirs, COMport, myports, ACQ_CH,
                    is_open, now, IDN, cfg, chi >>
    /\ UNCHANGED << wire, locals, files, emitted >>

\* lines 64-68: ser.open() opens the port or raises SerialException; it
\* never returns with the port closed, so the exit of line 68 is not taken
OpenPort ==
    /\ pc = "open"
    /\ UNCHANGED osc
    /\ \E opened \in BOOLEAN :
          /\ is_open' = opened
          /\ IF opened
             THEN pc' = "idn" /\ err' = err
             ELSE pc' = "crashed" /\ err' = "SerialException"
    /\ UNCHANGED << channels, smoothing, save_path, dirs, COMport, myports, ACQ_CH,
                    now, IDN, cfg, chi >>
    /\ UNCHANGED << wire, locals, files, emitted >>

(***************************************************************************)
(* One exchange: ser.write of each command, then one ser.readline.         *)
(***************************************************************************)
Sent(cmds) == [i \in 1..Len(cmds) |-> WriteEv(cmds[i])]

\* the lines the instrument queues for the commands, one per query
RECURSIVE Answers(_, _, _)
Answers(cmds, src, scope) ==
    IF Len(cmds) = 0 THEN { << >> }
    ELSE LET c == Head(cmds)
             first == IF Replies(c, src, scope) = { } THEN { << >> }
                      ELSE { << [q |-> c, text |-> t] >> : t \in Replies(c, src, scope) }
         IN  { a \o b : a \in first, b \in Answers(Tail(cmds), src, scope) }

\* the outcomes of writing cmds and reading one line
Exchanges(cmds, src) ==
    UNION { ReadOutcomes(rx \o a, timeouts) : a \in Answers(cmds, src, osc) }

\* the effect of an exchange with outcome o on the line
Exchange(cmds, o) ==
    /\ log' = log \o Sent(cmds) \o << ReadEv >>
    /\ rx' = o.rest
    /\ timeouts' = timeouts + (IF o.late THEN 1 ELSE 0)
    /\ tmo' = IF o.late /\ tmo = 0 THEN Len(log') ELSE tmo
    /\ lastline' = o.line
    /\ answered' = o.q

IdnCmds == << "*CLS", "*IDN?" >>

\* line 74
IdnMatches(idn) == idn = ExpectedIDN

\* lines 70-79: sys.exit() when the identification differs
Identify ==
    /\ pc = "idn"
    /\ UNCHANGED osc
    /\ \E o \in Exchanges(IdnCmds, source) :
          /\ Exchange(IdnCmds, o)
          /\ IDN' = DropLast(o.line)
    /\ IF IdnMatches(IDN')
       THEN pc' = "config" /\ err' = err /\ now' = NowStamp
       ELSE pc' = "exited" /\ err' = "IdentificationMismatch" /\ now' = now
    /\ UNCHANGED << channels, smoothing, save_path, dirs, COMport, myports, ACQ_CH,
                    is_open, cfg, chi, source >>
    /\ UNCHANGED << locals, files, emitted >>

\* the configuration with the data stop set before the data start
ConfigSeqStopFirst ==
    << << "WFMPre:BIT_Nr 16", "WFMPre:BIT_Nr?" >>,
       << "DATa:WIDth?" >>,
       << "WFMPre:ENCdg ASC", "WFMPre:ENCdg?" >>,
       << "HORizontal?" >>,
       << "DATa:STOP 10000", "DATa:STOP?" >>,
       << "DATa:STARt 1", "DATa:STARt?" >> >>

\* lines 82-101: the exchanges of the configuration, in order
ConfigSeq ==
    << << "WFMPre:BIT_Nr 16", "WFMPre:BIT_Nr?" >>,
       << "DATa:WIDth?" >>,
       << "WFMPre:ENCdg ASC", "WFMPre:ENCdg?" >>,
       << "HORizontal?" >>,
       << "DATa:STARt 1", "DATa:STARt?" >>,
       << "DATa:STOP 10000", "DATa:STOP?" >> >>

\* the values requested, and what the instrument reports when it took them
Requested ==
    { << "1", "6" >>, << "2" >>, << "A", "S", "C" >>, << "5", "0", "0", ";", "4" >>,
      << "1" >>, << "1", "0", "0", "0", "0" >> }

\* the session given up when an echo is not a requested value
AfterEchoCompared(k, echo) ==
    IF DropLast(echo) \notin Requested THEN "exited"
    ELSE IF k = Len(ConfigSeq) THEN "loop" ELSE "config"

\* lines 84-101: print(ser.readline()); the answer is printed, not compared,
\* and the script goes on to the next exchange or to the channel loop
AfterEcho(k, echo) == IF k = Len(ConfigSeq) THEN "loop" ELSE "config"

\* lines 81-104: one exchange of the configuration; the answer is printed
Configure ==
    /\ pc = "config"
    /\ UNCHANGED osc
    /\ cfg < Len(ConfigSeq)
    /\ \E o \in Exchanges(ConfigSeq[cfg + 1], source) : Exchange(ConfigSeq[cfg + 1], o)
    /\ cfg' = cfg + 1
    /\ pc' = AfterEcho(cfg', lastline')
    /\ UNCHANGED << err, channels, smoothing, save_path, dirs, COMport, myports,
                    ACQ_CH, is_open, now, IDN, chi, source >>
    /\ UNCHANGED << locals, files, emitted >>

(***************************************************************************)
(* The channel loop (lines 107-158).                                       *)
(***************************************************************************)
SourceCmdsSwapped(n) == << "DATa:SOU?", SourceCmd(n) >>

\* lines 109-110
SourceCmds(n) == << SourceCmd(n), "DATa:SOU?" >>

PreambleCmds == << "WFMPre?" >>
CurveCmds == << "CURVe?" >>

\* lines 114-116: now + " " + dat_sou + ".csv", ':' replaced, under save_path
FileName(dir, stamp, sou) ==
    dir \o << "/" >>
        \o Replace(stamp \o << " " >> \o sou \o << ".", "c", "s", "v" >>, ":", "-")

\* lines 107-116: the next selected channel becomes the data source, the
\* echo of DATa:SOU? names the record file
SelectSource ==
    /\ pc = "loop"
    /\ UNCHANGED osc
    /\ chi < Len(ACQ_CH)
    /\ chi' = chi + 1
    /\ source' = ACQ_CH[chi']
    /\ \E o \in Exchanges(SourceCmds(ACQ_CH[chi']), source') :
          /\ Exchange(SourceCmds(ACQ_CH[chi']), o)
          /\ dat_sou' = DropLast(o.line)
    /\ filename' = FileName(save_path.text, now, dat_sou')
    /\ pc' = "preamble"
    /\ UNCHANGED << err, channels, smoothing, save_path, dirs, COMport, myports,
                    ACQ_CH, is_open, now, IDN, cfg >>
    /\ UNCHANGED << ch_conf, XUNIT, XINCRement, XZERO, YUNIT, YMULTiplier, YZERO,
                    YOFF, ch_data_X, ch_data_Y, ch_data_Y_smooth, files, emitted >>

\* lines 121-128, in the order the script evaluates them: the exception that
\* ends the reading of the preamble, or "" when every field is read
PreambleError(conf) ==
    IF Len(conf) < 12 THEN "IndexError:preamble"
    ELSE IF ~IsFloat(Item(conf, 8)) \/ ~IsFloat(Item(conf, 10))
         THEN "ValueError:preamble"
    ELSE IF Len(conf) < 16 THEN "IndexError:preamble"
    ELSE IF ~IsFloat(Item(conf, 12)) \/ ~IsFloat(Item(conf, 13))
            \/ ~IsFloat(Item(conf, 14))
         THEN "ValueError:preamble"
    ELSE ""

\* an exception swallowed: the script would go on to the writer
AfterParseSwallowed(e, next) == IF e = "" THEN next ELSE "write"

\* no exception is caught anywhere: the first one ends the process
AfterParse(e, next) == IF e = "" THEN next ELSE "crashed"

\* lines 118-128: the preamble of the selected channel
ReadPreamble ==
    /\ pc = "preamble"
    /\ UNCHANGED osc
    /\ \E o \in Exchanges(PreambleCmds, source) :
          /\ Exchange(PreambleCmds, o)
          /\ ch_conf' = Split(DropLast(o.line), ";")
    /\ LET e == PreambleError(ch_conf')
       IN  /\ pc' = AfterParse(e, "curve")
           /\ err' = e
           /\ IF e = ""
              THEN /\ XUNIT' = Item(ch_conf', 11)
                   /\ XINCRement' = FloatIn(Item(ch_conf', 8), Resolution.time)
                   /\ XZERO' = FloatIn(Item(ch_conf', 10), Resolution.time)
                   /\ YUNIT' = Item(ch_conf', 15)
                   /\ YMULTiplier' = FloatIn(Item(ch_conf', 12), Resolution.volt)
                   /\ YZERO' = FloatIn(Item(ch_conf', 13), Resolution.volt)
                   /\ YOFF' = Float(Item(ch_conf', 14)) * YMULTiplier'
              ELSE UNCHANGED << XUNIT, XINCRement, XZERO, YUNIT, YMULTiplier,
                                YZERO, YOFF >>
    /\ UNCHANGED << channels, smoothing, save_path, dirs, COMport, myports, ACQ_CH,
                    is_open, now, IDN, cfg, chi, source >>
    /\ UNCHANGED << dat_sou, filename, ch_data_X, ch_data_Y, ch_data_Y_smooth,
                    files, emitted >>

\* line 132: float(d) raises ValueError on the first token that is no number
CurveError(tokens) ==
    IF \E i \in 1..Len(tokens) : ~IsFloat(tokens[i]) THEN "ValueError:curve" ELSE ""

\* lines 130-133: the curve of the selected channel, scaled, and its time axis
ReadCurve ==
    /\ pc = "curve"
    /\ UNCHANGED osc
    /\ \E o \in Exchanges(CurveCmds, source) :
          /\ Exchange(CurveCmds, o)
          /\ LET tokens == Split(DropLast(o.line), ",")
                 e == CurveError(tokens)
             IN  /\ pc' = AfterParse(e, "smooth")
                 /\ err' = e
                 /\ IF e = ""
                    THEN /\ ch_data_Y' = ScaleY(tokens, YMULTiplier)
                         /\ ch_data_X' = TimeAxis(Len(ch_data_Y'), XINCRement, XZERO)
                    ELSE UNCHANGED << ch_data_X, ch_data_Y >>
    /\ UNCHANGED << channels, smoothing, save_path, dirs, COMport, myports, ACQ_CH,
                    is_open, now, IDN, cfg, chi, source >>
    /\ UNCHANGED << dat_sou, filename, ch_conf, XUNIT, XINCRement, XZERO, YUNIT,
                    YMULTiplier, YZERO, YOFF, ch_data_Y_smooth, files, emitted >>

\* the filter fed with the samples the offset has been taken off
SmoothInputOffsetRemoved(ys, yoff) == RemoveOffset(ys, yoff)

\* line 138: the filter is fed with ch_data_Y as line 132 left it; the offset
\* is taken off at line 145, after the filter has run
SmoothInput(ys, yoff) == ys

\* lines 136-145: the smoothed series of the scaled samples when smoothing is
\* requested (savgol_filter raises ValueError on a series it refuses), then
\* the position offset is taken off the samples
SmoothAndOffset ==
    /\ pc = "smooth"
    /\ UNCHANGED osc
    /\ IF smoothing /\ SavGolFails(ch_data_Y, smooth_window, smooth_order)
       THEN /\ pc' = "crashed"
            /\ err' = "ValueError:savgol"
            /\ UNCHANGED << ch_data_Y, ch_data_Y_smooth >>
       ELSE /\ pc' = "write"
            /\ err' = err
            /\ ch_data_Y_smooth' =
                  IF smoothing THEN SavGol(SmoothInput(ch_data_Y, YOFF), smooth_window)
                  ELSE ch_data_Y_smooth
            /\ ch_data_Y' = RemoveOffset(ch_data_Y, YOFF)
    /\ UNCHANGED << channels, smoothing, save_path, dirs, COMport, myports, ACQ_CH,
                    is_open, now, IDN, cfg, chi >>
    /\ UNCHANGED << dat_sou, filename, ch_conf, XUNIT, XINCRement, XZERO, YUNIT,
                    YMULTiplier, YZERO, YOFF, ch_data_X, wire, files, emitted >>

\* open(filename, 'w'): the file is created, or emptied when it exists
Store(fs, rec) == {f \in fs : f.name # rec.name} \cup {rec}

\* the record without the smoothed column whatever was requested
RecordUnsmoothed(name) ==
    [name   |-> name,
     header |-> ch_conf,
     titles |-> << << "Time", XUNIT >>, << "Voltage", YUNIT >> >>,
     rows   |-> Zip2(ch_data_X, ch_data_Y)]

\* lines 150-158: the header row, the column titles, one row per sample
Record(name) ==
    [name   |-> name,
     header |-> ch_conf,
     titles |-> IF smoothing
                THEN << << "Time", XUNIT >>, << "Voltage", YUNIT >>,
                        << "Smoothed Voltage", YUNIT >> >>
                ELSE << << "Time", XUNIT >>, << "Voltage", YUNIT >> >>,
     rows   |-> IF smoothing
                THEN Zip3(ch_data_X, ch_data_Y, ch_data_Y_smooth)
                ELSE Zip2(ch_data_X, ch_data_Y)]

\* lines 147-158: the record of the channel is written
WriteRecord ==
    /\ pc = "write"
    /\ UNCHANGED osc
    /\ files' = Store(files, Record(filename))
    /\ emitted' = Append(emitted, [ch |-> ACQ_CH[chi], file |-> filename])
    /\ pc' = "loop"
    /\ UNCHANGED << err, channels, smoothing, save_path, dirs, COMport, myports,
                    ACQ_CH, is_open, now, IDN, cfg, chi >>
    /\ UNCHANGED << wire, locals >>

\* lines 160-162: after the last channel the plot is shown and the port closed
ShowAndClose ==
    /\ pc = "loop"
    /\ UNCHANGED osc
    /\ chi = Len(ACQ_CH)
    /\ is_open' = FALSE
    /\ pc' = "done"
    /\ UNCHANGED << err, channels, smoothing, save_path, dirs, COMport, myports,
                    ACQ_CH, now, IDN, cfg, chi >>
    /\ UNCHANGED << wire, locals, files, emitted >>

Next ==
    \/ ParseArgs
    \/ CheckPort
    \/ OpenPort
    \/ Identify
    \/ Configure
    \/ SelectSource
    \/ ReadPreamble
    \/ ReadCurve
    \/ SmoothAndOffset
    \/ WriteRecord
    \/ ShowAndClose

Spec == Init /\ [][Next]_vars

(***************************************************************************)
(* Vocabulary of the properties.                                           *)
(***************************************************************************)
\* a response with its line terminator stripped: the bytes before the
\* terminator when there is one, all the bytes when there is none
StripTerminator(line) ==
    IF Len(line) > 0 /\ line[Len(line)] = NL THEN DropLast(line) ELSE line

Occurs(text, c) == \E i \in 1..Len(text) : text[i] = c

\* the comma-separated tokens of a text: one more than its commas
CountTokens(text) == Cardinality({i \in 1..Len(text) : text[i] = ","}) + 1

AllNumeric(text) == \A i \in 1..Len(Split(text, ",")) : IsFloat(Split(text, ",")[i])

IsPrefix(a, b) == Len(a) <= Len(b) /\ a = SubSeq(b, 1, Len(a))

ParseErrors == {"IndexError:preamble", "ValueError:preamble", "ValueError:curve"}

HasRecord(n) == \E i \in 1..Len(emitted) : emitted[i].ch = n

(***************************************************************************)
(* C1: on every exit path of a session that opened the serial connection   *)
(* (completion, identification mismatch, a failure while parsing), the     *)
(* connection is closed: no terminal state has the connection open.        *)
(* Stated for the sessions in which every read returned a whole line.      *)
(***************************************************************************)
C1_ClosedOnEveryExit == (tmo = 0 /\ pc \in Terminal) => ~is_open

(***************************************************************************)
(* C2: after *CLS and *IDN? the session proceeds to the configuration if   *)
(* and only if the identification response, its line terminator stripped,  *)
(* equals the expected literal; for any other response the session ends    *)
(* and no command of the configuration or of the channels is written.      *)
(***************************************************************************)
\* the state right after the identification has been read and compared
IdnJustRead == Len(log) = Len(IdnCmds) + 1 /\ pc # "idn"

C2_ProceedsIffIdentified ==
    /\ (IdnJustRead /\ tmo = 0)
          => (pc = "config" <=> StripTerminator(lastline) = ExpectedIDN)
    /\ (IdnJustRead /\ StripTerminator(lastline) # ExpectedIDN) => pc = "exited"
    /\ pc = "exited" => Len(log) <= Len(IdnCmds) + 1

(***************************************************************************)
(* C3: a failure of one channel (a preamble short of fields or with a      *)
(* non-numeric field, a curve with a non-numeric token) does not end the   *)
(* session: every later selected channel still produces its record.        *)
(* Stated for the sessions in which every read returned a whole line.      *)
(***************************************************************************)
C3_ChannelFailureIsolated ==
    (tmo = 0 /\ pc \in Terminal /\ err \in ParseErrors)
        => \A i \in (chi + 1)..Len(ACQ_CH) : HasRecord(ACQ_CH[i])

(***************************************************************************)
(* C4: an empty channel specifier, or one with none of the digits 1-4,     *)
(* yields the default selection 1, 2.                                      *)
(***************************************************************************)
C4_EmptyOrGarbageGivesDefault ==
    (pc # "args" /\ \A d \in 1..4 : ~Occurs(channels.text, ToString(d)))
        => ACQ_CH = << 1, 2 >>

(***************************************************************************)
(* C5: the channel selection is exactly the digits of 1..4 that occur in   *)
(* the specifier, in strictly ascending order, none repeated, whatever the *)
(* order and multiplicity of the digits in the specifier; once derived it  *)
(* never changes.                                                          *)
(***************************************************************************)
C5_SelectionAscendingFixed ==
    /\ [](pc # "args" =>
            /\ \A i \in 1..(Len(ACQ_CH) - 1) : ACQ_CH[i] < ACQ_CH[i + 1]
            /\ {ACQ_CH[i] : i \in 1..Len(ACQ_CH)}
                  = {d \in 1..4 : Occurs(channels.text, ToString(d))})
    /\ [][pc # "args" => ACQ_CH' = ACQ_CH]_vars

C5_Witness ==
    /\ pc = "write"
    /\ chi = 3
    /\ channels.text = << "4", "3", "1" >>
    /\ ACQ_CH = << 1, 3, 4 >>

(***************************************************************************)
(* C6: for each processed channel n the wire carries, in this order and    *)
(* with nothing in between: write DATa:SOU CH<n>, write DATa:SOU?, read,   *)
(* write WFMPre?, read, write CURVe?, read.                                *)
(***************************************************************************)
ChannelBlock(n) ==
    << << "w", "DATa:SOU CH" \o ToString(n) >>, << "w", "DATa:SOU?" >>,
       << "r", "readline" >>,
       << "w", "WFMPre?" >>, << "r", "readline" >>,
       << "w", "CURVe?" >>, << "r", "readline" >> >>

RECURSIVE ChannelBlocks(_)
ChannelBlocks(k) ==
    IF k = 0 THEN << >> ELSE ChannelBlocks(k - 1) \o ChannelBlock(ACQ_CH[k])

ChannelWrites ==
    {<< "w", "DATa:SOU CH" \o ToString(n) >> : n \in 1..4}
        \cup {<< "w", "DATa:SOU?" >>, << "w", "WFMPre?" >>, << "w", "CURVe?" >>}

\* the log from the first command of the channel loop on
ChannelLog ==
    IF \E i \in 1..Len(log) : log[i] \in ChannelWrites
    THEN SubSeq(log, CHOOSE i \in 1..Len(log) :
                        /\ log[i] \in ChannelWrites
                        /\ \A j \in 1..(i - 1) : log[j] \notin ChannelWrites,
                Len(log))
    ELSE << >>

C7_LengthsEqualTokens ==
    LET curve == StripTerminator(lastline)
        n == CountTokens(curve)
    IN  AllNumeric(curve) =>
          /\ pc \in {"smooth", "write"} =>
                Len(ch_data_X) = n /\ Len(ch_data_Y) = n
          /\ (pc \in {"loop", "done"} /\ chi > 0) =>
                \E f \in files : f.name = emitted[Len(emitted)].file /\ Len(f.rows) = n

C7_Witness ==
    /\ pc = "loop"
    /\ smoothing
    /\ chi > 0
    /\ AllNumeric(StripTerminator(lastline))
    /\ \E f \in files :
          /\ f.name = emitted[Len(emitted)].file
          /\ Len(f.rows) = MaxSamples
          /\ Len(f.rows[1]) = 3

(***************************************************************************)
(* C8: when the requested port is not in the enumerated list of ports, the *)
(* session ends without opening the transport and without writing any      *)
(* command; the transport is open only when the port is in the list.       *)
(***************************************************************************)
C8_NoPortNoSession ==
    (\A i \in 1..Len(myports) : myports[i][1] # COMport)
        => /\ ~is_open
           /\ log = << >>
           /\ pc \in {"args", "port", "exited"}

C8_Witness ==
    /\ pc = "exited"
    /\ err = "PortNotFound"
    /\ Len(myports) > 0
    /\ \A i \in 1..Len(myports) : myports[i][1] # COMport

(***************************************************************************)
(* C9: a query whose response line does not arrive within the read timeout *)
(* fails: after a readline that timed out, the session does not go on to   *)
(* write the next command.                                                 *)
(***************************************************************************)
C9_TimeoutEndsSession ==
    tmo > 0 => \A i \in (tmo + 1)..Len(log) : log[i][1] # "w"

(***************************************************************************)
(* C10: no record is persisted for a channel whose preamble or curve fails *)
(* to parse: the failing step and everything after it leave the record     *)
(* files as they were, and the failed channel has no record.               *)
(***************************************************************************)
C10_NoRecordForFailedChannel ==
    /\ [](err \in ParseErrors => ~HasRecord(ACQ_CH[chi]))
    /\ [][(err \in ParseErrors \/ err' \in ParseErrors)
             => (files' = files /\ emitted' = emitted)]_vars

C10_Witness ==
    /\ err \in ParseErrors
    /\ pc = "crashed"
    /\ Len(emitted) > 0
    /\ files # { }

(***************************************************************************)
(* C11: a session that completes has persisted one record per selected     *)
(* channel: the record files at the end are as many as the selected        *)
(* channels, whatever source echoes the instrument returns.                *)
(* Stated for the sessions in which every read returned a whole line.      *)
(***************************************************************************)
C11_OneFilePerChannel ==
    (tmo = 0 /\ pc = "done") => Cardinality(files) = Len(ACQ_CH)

\* the tokens of the line read last, and a preamble field as a number
CurveTokens == Split(DropLast(lastline), ",")
Field(k, p) == FloatIn(Item(ch_conf, k), p)

\* the record written last
LastRecord == CHOOSE f \in files : f.name = filename

\* a channel has been read, decoded and persisted, and nothing read since
Persisted == pc \in {"loop", "done"} /\ chi > 0

(***************************************************************************)
(* C12.  For the preamble and the curve as they were read: point i (from   *)
(* 0) has time i * x_increment + x_zero, its scaled voltage is             *)
(* sample * y_multiplier, and the persisted voltage is the scaled voltage  *)
(* less y_position_raw * y_multiplier.  With x_increment 1e-6, x_zero 0,   *)
(* y_multiplier 0.04, y_position_raw 512 and the curve "100,200,300" the   *)
(* times are 0, 1e-6, 2e-6, the scaled voltages 4.0, 8.0, 12.0 and the     *)
(* persisted voltages -16.48, -12.48, -8.48 (times in units of 10^-6,      *)
(* voltages in units of 10^-2).                                            *)
(***************************************************************************)
C12_DecodeFormulas ==
    /\ pc = "smooth" =>
          /\ Len(ch_data_X) = Len(CurveTokens)
          /\ Len(ch_data_Y) = Len(CurveTokens)
          /\ \A i \in 1..Len(CurveTokens) :
                /\ ch_data_X[i] = (i - 1) * Field(8, Resolution.time)
                                     + Field(10, Resolution.time)
                /\ ch_data_Y[i] = Float(CurveTokens[i]) * Field(12, Resolution.volt)
    /\ Persisted =>
          /\ Len(LastRecord.rows) = Len(CurveTokens)
          /\ \A i \in 1..Len(CurveTokens) :
                /\ LastRecord.rows[i][1] = (i - 1) * Field(8, Resolution.time)
                                              + Field(10, Resolution.time)
                /\ LastRecord.rows[i][2] =
                      Float(CurveTokens[i]) * Field(12, Resolution.volt)
                         - Float(Item(ch_conf, 14)) * Field(12, Resolution.volt)
    /\ (ch_conf = StepFields /\ CurveTokens = StepSamples) =>
          /\ pc = "smooth" => /\ ch_data_X = << 0, 1, 2 >>
                              /\ ch_data_Y = << 400, 800, 1200 >>
          /\ Persisted => \A i \in 1..3 :
                SubSeq(LastRecord.rows[i], 1, 2)
                   = << << 0, -1648 >>, << 1, -1248 >>, << 2, -848 >> >>[i]

C12_Witness ==
    /\ pc = "done" /\ tmo = 0
    /\ ch_conf = StepFields /\ CurveTokens = StepSamples
    /\ LastRecord.rows = << << 0, -1648 >>, << 1, -1248 >>, << 2, -848 >> >>

\* the log of the configuration: after the identification exchange, before
\* the first command of the channel loop
ConfigLog == SubSeq(log, Len(IdnCmds) + 2, Len(log) - Len(ChannelLog))

\* the configuration is over
Configured == pc \in {"loop", "preamble", "curve", "smooth", "write", "done"}

StatedConfigLog ==
    << WriteEv("WFMPre:BIT_Nr 16"), WriteEv("WFMPre:BIT_Nr?"), ReadEv,
       WriteEv("WFMPre:ENCdg ASC"), WriteEv("WFMPre:ENCdg?"), ReadEv,
       WriteEv("HORizontal?"), ReadEv,
       WriteEv("DATa:STARt 1"), WriteEv("DATa:STARt?"), ReadEv,
       WriteEv("DATa:STOP 10000"), WriteEv("DATa:STOP?"), ReadEv >>

ActualConfigLog ==
    << WriteEv("WFMPre:BIT_Nr 16"), WriteEv("WFMPre:BIT_Nr?"), ReadEv,
       WriteEv("DATa:WIDth?"), ReadEv,
       WriteEv("WFMPre:ENCdg ASC"), WriteEv("WFMPre:ENCdg?"), ReadEv,
       WriteEv("HORizontal?"), ReadEv,
       WriteEv("DATa:STARt 1"), WriteEv("DATa:STARt?"), ReadEv,
       WriteEv("DATa:STOP 10000"), WriteEv("DATa:STOP?"), ReadEv >>

C14_EchoMismatchNotFatal ==
    [][pc = "config" => (pc' \in {"config", "loop"} /\ err' = "")]_vars

\* the channel loop is reached although the last echo (data stop) is 500
C14_Witness ==
    /\ pc = "loop" /\ chi = 0 /\ tmo = 0
    /\ lastline = Line(<< "5", "0", "0" >>)

(***************************************************************************)
(* C15.  A violation of the smoothing preconditions is detected before any *)
(* channel work: a run that fails on the smoothing parameters has sent no  *)
(* DATa:SOU, WFMPre? or CURVe? command, also when the curve of a channel   *)
(* has fewer samples than the window.                                      *)
(***************************************************************************)
C15_SmoothingCheckedBeforeChannels ==
    (tmo = 0 /\ err = "ValueError:savgol") => ChannelLog = << >>

(***************************************************************************)
(* C16.  A smoothed series is produced only when smoothing was requested.  *)
(* Without the request no smoothed series exists and every persisted row   *)
(* is (time, voltage) under two column titles.  With the request the       *)
(* unsmoothed series is computed all the same, the smoothed series has its *)
(* length, and every persisted row is (time, voltage, smoothed voltage)    *)
(* under three column titles, one row per sample of the curve.             *)
(***************************************************************************)
C16_SmoothedColumnIffRequested ==
    /\ [][ch_data_Y_smooth' # ch_data_Y_smooth => smoothing]_vars
    /\ [](~smoothing =>
            /\ ch_data_Y_smooth = << >>
            /\ \A f \in files :
                  /\ Len(f.titles) = 2
                  /\ \A i \in 1..Len(f.rows) : Len(f.rows[i]) = 2)
    /\ [](smoothing =>
            /\ pc = "write" =>
                  /\ Len(ch_data_Y) = Len(CurveTokens)
                  /\ Len(ch_data_Y_smooth) = Len(ch_data_Y)
            /\ \A f \in files :
                  /\ Len(f.titles) = 3
                  /\ \A i \in 1..Len(f.rows) : Len(f.rows[i]) = 3)
    /\ [](Persisted =>
            /\ Len(LastRecord.rows) = Len(CurveTokens)
            /\ \A i \in 1..Len(LastRecord.rows) :
                  LastRecord.rows[i] =
                     IF smoothing
                     THEN << ch_data_X[i], ch_data_Y[i], ch_data_Y_smooth[i] >>
                     ELSE << ch_data_X[i], ch_data_Y[i] >>)

C16_Witness ==
    /\ pc = "done" /\ chi > 0 /\ smoothing /\ tmo = 0
    /\ Len(LastRecord.rows) = MaxSamples
    /\ \A i \in 1..MaxSamples : Len(LastRecord.rows[i]) = 3

(***************************************************************************)
(* C17.  The y-zero offset of preamble field 13 is subtracted from the     *)
(* scaled sample when the calibrated voltage is derived: a persisted       *)
(* voltage is sample * y_multiplier less y-zero less the position offset.  *)
(***************************************************************************)
C17_YZeroSubtracted ==
    (tmo = 0 /\ Persisted) =>
       \A i \in 1..Len(LastRecord.rows) :
          LastRecord.rows[i][2] =
             Float(CurveTokens[i]) * Field(12, Resolution.volt)
                - Field(13, Resolution.volt)
                - Float(Item(ch_conf, 14)) * Field(12, Resolution.volt)

\* the channels of the records written, in the order they were written
EmittedChannels == [i \in 1..Len(emitted) |-> emitted[i].ch]

(***************************************************************************)
(* C18.  A session ends done or failed; and a session whose port exists    *)
(* and opens, whose identification matches and whose every response        *)
(* arrives in time and is well-formed ends done, having processed each     *)
(* selected channel exactly once in ascending order.                       *)
(***************************************************************************)
C18_WellFormedSessionEndsDone ==
    (/\ pc \in Terminal
     /\ tmo = 0
     /\ IDN = ExpectedIDN
     /\ err \notin ParseErrors)
       => (pc = "done" /\ EmittedChannels = ACQ_CH)

(***************************************************************************)
(* C19.  Every response line the session consumes is the instrument's      *)
(* answer to the query written last: a response arriving after its read    *)
(* timed out is not taken as the answer to a later, different query.       *)
(***************************************************************************)
C19_ResponseAnswersLastQuery ==
    (Len(log) >= 2 /\ lastline # << >>) =>
       log[Len(log) - 1] = WriteEv(answered)

\* every sample of the curve has the same code
IsFlat(tokens) == \A i \in 1..Len(tokens) : tokens[i] = tokens[1]

(***************************************************************************)
(* C20.  With smoothing requested, for a flat curve and a non-zero         *)
(* y-position, each persisted row has the scaled sample as its smoothed    *)
(* voltage and the scaled sample less the position offset as its voltage:  *)
(* the two differ by y_position_raw * y_multiplier.                        *)
(***************************************************************************)
C20_SmoothedKeepsOffset ==
    (/\ smoothing /\ Persisted
     /\ IsFlat(CurveTokens)
     /\ Float(Item(ch_conf, 14)) # 0)
       => \A i \in 1..Len(LastRecord.rows) :
             /\ LastRecord.rows[i][3] = Float(CurveTokens[i]) * Field(12, Resolution.volt)
             /\ LastRecord.rows[i][3] - LastRecord.rows[i][2]
                   = Float(Item(ch_conf, 14)) * Field(12, Resolution.volt)
             /\ LastRecord.rows[i][3] # LastRecord.rows[i][2]

C20_Witness ==
    /\ pc = "done" /\ chi > 0 /\ smoothing /\ tmo = 0
    /\ CurveTokens = FlatSamples
    /\ Len(LastRecord.rows) = smooth_window
    /\ LastRecord.rows[1][3] - LastRecord.rows[1][2] = 2048

====
